---- MODULE Spec2Model ----
(***************************************************************************)
(* watchdogd: a dead man's switch server (src/main.go).                    *)
(*                                                                         *)
(* Strings are sequences of one-character strings, so that the prefix cut  *)
(* of the Authorization header and the key pattern are computed character  *)
(* by character.  Time is counted in whole seconds; the zero time.Time     *)
(* (year 1) is the number 0 and time.Now() is always later than that.      *)
(*                                                                         *)
(* Every access to checkins after startup is made between mu.Lock() and    *)
(* mu.Unlock() (lines 50-52, 100-102, 116-118, 126-128) with nothing else  *)
(* in between, so each of these critical sections is one atomic step.      *)
(***************************************************************************)
EXTENDS Integers, Sequences, FiniteSets, TLC

VARIABLES
    proc,       \* position of main: "init", "serving", "exited"
    authToken,  \* var authToken (line 22)
    filename,   \* var filename (line 23): "" when no -f flag was given
    disk,       \* the file named by filename: [state, data]
    checkins,   \* var checkins (line 25): function key -> time
    clock,      \* the wall clock read by time.Now()
    reqs,       \* the request goroutines that are in a handler, in order of arrival
    out,        \* the request finished by the step just taken and its response
    saves,      \* the goroutines started by `go save()`, in spawn order
    nreq,       \* number of requests that have arrived
    written     \* <<m>> for the snapshot m of the last save whose WriteFile returned

vars == <<proc, authToken, filename, disk, checkins, clock, reqs, out,
          saves, nreq, written>>

----------------------------------------------------------------------------
(* Bounds of the model *)

NumWorkers == 2      \* request goroutines that can be in a handler together
MaxRequests == 2     \* requests served in one run
MaxClock == 3        \* last clock value
StartClock == 2      \* clock value when the process starts

----------------------------------------------------------------------------
(* Strings *)

Bearer == <<"B", "e", "a", "r", "e", "r", " ">>
Empty == <<>>

\* strings.CutPrefix(s, prefix)
CutPrefix(s, prefix) ==
    IF Len(s) >= Len(prefix) /\ SubSeq(s, 1, Len(prefix)) = prefix
    THEN [rest |-> SubSeq(s, Len(prefix) + 1, Len(s)), ok |-> TRUE]
    ELSE [rest |-> s, ok |-> FALSE]

\* subtle.ConstantTimeCompare(x, y) = 1: equal lengths and equal bytes
ConstantTimeCompare(x, y) ==
    IF Len(x) # Len(y) THEN 0
    ELSE IF \A i \in 1..Len(x) : x[i] = y[i] THEN 1 ELSE 0

----------------------------------------------------------------------------
(* Keys: keyRe and parse (lines 26, 61-67) *)

Letters == {"a", "b", "c", "k", "p", "u", "x", "h", "m", "s"}
Digits == {"0", "1", "2", "3", "4", "5", "6", "7", "8", "9"}
LabelChars == Letters \cup Digits \cup {".", "_", "-"}
Units == {"h", "m", "s"}

DigitValue(c) ==
    CASE c = "0" -> 0 [] c = "1" -> 1 [] c = "2" -> 2 [] c = "3" -> 3
      [] c = "4" -> 4 [] c = "5" -> 5 [] c = "6" -> 6 [] c = "7" -> 7
      [] c = "8" -> 8 [] c = "9" -> 9

\* leadingInt of time.ParseDuration: the decimal value of a digit string
\* (digit strings of the model have at most 9 digits)
RECURSIVE leadingInt(_)
leadingInt(ds) ==
    IF ds = <<>> THEN 0
    ELSE 10 * leadingInt(SubSeq(ds, 1, Len(ds) - 1)) + DigitValue(ds[Len(ds)])

\* seconds per unit (time.Hour, time.Minute, time.Second)
UnitSeconds(u) == CASE u = "h" -> 3600 [] u = "m" -> 60 [] u = "s" -> 1

\* the largest magnitude of each unit that fits a time.Duration
\* (int64 nanoseconds): floor(2^63 / unit); a magnitude of at most 9 digits
\* in seconds always fits
MaxHours == 2562047
MaxMinutes == 153722867
Overflows(n, u) ==
    CASE u = "h" -> n > MaxHours [] u = "m" -> n > MaxMinutes [] u = "s" -> FALSE

\* keyRe = ^[a-zA-Z0-9._-]+-(\d+[hms])$ : the digits hold no '-', so the
\* '-' before the group is the last '-' of the key. The result is the index
\* of the first character of the group, 0 when the key does not match.
keyRe(key) ==
    LET n == Len(key)
        dashes == {p \in 1..n : key[p] = "-"}
    IN  IF dashes = {} THEN 0
        ELSE LET p == CHOOSE q \in dashes : \A r \in dashes : r <= q
             IN  IF /\ p >= 2
                    /\ \A i \in 1..(p - 1) : key[i] \in LabelChars
                    /\ n >= p + 2
                    /\ \A i \in (p + 1)..(n - 1) : key[i] \in Digits
                    /\ key[n] \in Units
                 THEN p + 1
                 ELSE 0

\* parse: [ok, dur, panic]; must(time.ParseDuration(...)) panics when the
\* duration overflows
parse(key) ==
    LET g == keyRe(key)
    IN  IF g = 0 THEN [ok |-> FALSE, dur |-> 0, panic |-> FALSE]
        ELSE LET n == leadingInt(SubSeq(key, g, Len(key) - 1))
                 u == key[Len(key)]
             IN  IF Overflows(n, u)
                 THEN [ok |-> FALSE, dur |-> 0, panic |-> TRUE]
                 ELSE [ok |-> TRUE, dur |-> n * UnitSeconds(u), panic |-> FALSE]

----------------------------------------------------------------------------
(* The keys, tokens and credentials that requests and files are built from *)

KeyA == <<"a", "-", "1", "s">>                  \* valid, window 1 second
KeyB == <<"b", "-", "2", "s">>                  \* valid, window 2 seconds
KeyX == <<"x">>                                 \* invalid: no suffix
KeyBackup == <<"b", "a", "c", "k", "u", "p", "-", "2", "4", "h">>
KeyHuge == <<"k", "-", "9", "9", "9", "9", "9", "9", "9", "h">>  \* matches keyRe, overflows

KeyTrail == <<"a", "-", "1", "s", "x">>         \* invalid: text after the suffix

RequestKeys == {KeyA, KeyB, KeyX, KeyTrail, KeyHuge}    \* keys of check-ins
StatusKeys == RequestKeys \cup {KeyBackup}                \* keys of status queries

Secret == <<"S">>        \* the token given with -t
Generated == {Secret}    \* the tokens lines 165-167 can generate: never empty
Wrong == <<"W">>

\* the credential fields of a request: the values of its Authorization and
\* Authentication header lines (none, or one) and its token query parameter
NoCredential == [Authorization |-> <<>>, Authentication |-> <<>>, query |-> Empty]

\* http.Header.Get: the first value of the header, "" when there is none
Get(values) == IF values = <<>> THEN Empty ELSE values[1]

\* header and query values a check-in request can carry, for a client that
\* was told the token tok
Credentials(tok) ==
    { [NoCredential EXCEPT !.Authorization = <<Bearer \o tok>>],
      [NoCredential EXCEPT !.Authorization = <<Bearer \o Wrong>>, !.query = tok],
      [NoCredential EXCEPT !.Authorization = <<Bearer>>],
      [NoCredential EXCEPT !.Authorization = <<tok>>, !.query = tok],
      [NoCredential EXCEPT !.Authorization = <<Empty>>, !.query = tok],
      [NoCredential EXCEPT !.query = tok],
      [NoCredential EXCEPT !.query = Wrong],
      [NoCredential EXCEPT !.Authentication = <<Bearer \o tok>>],
      NoCredential }

----------------------------------------------------------------------------
(* The persisted document: json.MarshalIndent and json.Unmarshal of a      *)
(* map[string]time.Time (lines 40, 54).  A document is a sequence of       *)
(* tokens: an opening brace, one token per entry, a closing brace.         *)

Open == [t |-> "{", key |-> Empty, val |-> Empty]
Close == [t |-> "}", key |-> Empty, val |-> Empty]
Entry(k, text) == [t |-> "entry", key |-> k, val |-> text]

\* time.Time.MarshalJSON: the RFC 3339 text of an instant
FormatTime(t) == <<"T", t>>
\* time.Time.UnmarshalJSON: the instant of an RFC 3339 text, or an error
ParseTime(text) ==
    IF Len(text) = 2 /\ text[1] = "T"
    THEN [ok |-> TRUE, t |-> text[2]]
    ELSE [ok |-> FALSE, t |-> 0]
BadTime == <<"?">>

\* byte order of the characters keys are made of
Alphabet == <<"-", ".", "0", "1", "2", "3", "4", "5", "6", "7", "8", "9", "_",
              "a", "b", "c", "h", "k", "m", "p", "s", "u", "x">>
Code(c) == CHOOSE i \in 1..Len(Alphabet) : Alphabet[i] = c

\* a < b as strings (the order encoding/json sorts map keys in)
RECURSIVE Less(_, _)
Less(a, b) ==
    IF b = <<>> THEN FALSE
    ELSE IF a = <<>> THEN TRUE
    ELSE IF a[1] # b[1] THEN Code(a[1]) < Code(b[1])
    ELSE Less(Tail(a), Tail(b))

\* the entries of m in key order
RECURSIVE Entries(_)
Entries(m) ==
    IF DOMAIN m = {} THEN <<>>
    ELSE LET k == CHOOSE x \in DOMAIN m : \A y \in DOMAIN m \ {x} : Less(x, y)
         IN  <<Entry(k, FormatTime(m[k]))>> \o Entries([y \in DOMAIN m \ {k} |-> m[y]])

\* json.MarshalIndent(m, "", "  ")
MarshalIndent(m) == <<Open>> \o Entries(m) \o <<Close>>

\* the scanner's check of the whole input, done before anything is decoded
checkValid(data) ==
    /\ Len(data) >= 2
    /\ data[1] = Open
    /\ data[Len(data)] = Close
    /\ \A i \in 2..(Len(data) - 1) : data[i].t = "entry"

\* decoding the entries from position i on into m: stops at the first value
\* that is no time, keeping what was stored before it
RECURSIVE decode(_, _, _)
decode(data, i, m) ==
    IF i >= Len(data) THEN [m |-> m, err |-> FALSE]
    ELSE LET v == ParseTime(data[i].val)
         IN  IF ~v.ok THEN [m |-> m, err |-> TRUE]
             ELSE decode(data, i + 1,
                         [k \in DOMAIN m \cup {data[i].key} |->
                             IF k = data[i].key THEN v.t ELSE m[k]])

\* json.Unmarshal(data, &m)
Unmarshal(data, m) ==
    IF ~checkValid(data) THEN [m |-> m, err |-> TRUE]
    ELSE decode(data, 2, m)

EmptyMap == [k \in {} |-> 0]
Map1(k, t) == [x \in {k} |-> t]

\* what the file named by -f can be when the process starts
Absent == [state |-> "absent", data |-> <<>>]
Unreadable == [state |-> "unreadable", data |-> <<>>]
File(data) == [state |-> "present", data |-> data]
InitDisks ==
    { Absent,
      Unreadable,
      File(MarshalIndent(Map1(KeyA, 1))),
      File(MarshalIndent(Map1(KeyA, 0))),
      File(MarshalIndent(Map1(KeyX, 1))),
      File(<<Open, Entry(KeyA, FormatTime(1))>>),
      File(<<Open, Entry(KeyA, FormatTime(1)), Entry(KeyB, BadTime), Close>>) }

----------------------------------------------------------------------------
(* Responses and status lines *)

NoResp == [code |-> 0, msg |-> "", n |-> 0, lines |-> {}]
Error(code, msg) == [code |-> code, msg |-> msg, n |-> 0, lines |-> {}]
NoContent == [code |-> 204, msg |-> "", n |-> 0, lines |-> {}]
Text(n, lines) == [code |-> 200, msg |-> "", n |-> n, lines |-> lines]
\* the handler panicked (must, line 190) and net/http dropped the request
Aborted == [code |-> 0, msg |-> "panic", n |-> 0, lines |-> {}]

\* printStatus raising the alarm already when the window has just elapsed
printStatusAtBoundary(key, dur, lastCheckin, now) ==
    IF lastCheckin = 0
    THEN [key |-> key, last |-> Empty, since |-> 0, verdict |-> "NEVER"]
    ELSE [key |-> key, last |-> FormatTime(lastCheckin), since |-> now - lastCheckin,
          verdict |-> IF now - lastCheckin >= dur THEN "ALARM" ELSE "OKAY"]

\* printStatus (lines 139-152): the line written for a key
printStatus(key, dur, lastCheckin, now) ==
    IF lastCheckin = 0
    THEN [key |-> key, last |-> Empty, since |-> 0, verdict |-> "NEVER"]
    ELSE LET since == now - lastCheckin
         IN  [key |-> key, last |-> FormatTime(lastCheckin), since |-> since,
              verdict |-> IF since > dur THEN "ALARM" ELSE "OKAY"]

\* Lookup answering with the zero time whatever the registry holds
LookupNothing(m, key) == 0

\* checkins[key] (line 117): the zero time.Time when the map has no entry
Lookup(m, key) == IF key \in DOMAIN m THEN m[key] ELSE 0

\* a store that keeps only the key it writes
StoreAlone(m, key, now) == [k \in {key} |-> now]

\* checkins[key] = now (line 101)
Store(m, key, now) == [k \in DOMAIN m \cup {key} |-> IF k = key THEN now ELSE m[k]]

----------------------------------------------------------------------------
(* State *)

\* the request goroutines in a handler
Workers == 1..Len(reqs)

\* the requests after request i has returned
Return(rs, i) == [n \in 1..(Len(rs) - 1) |-> IF n < i THEN rs[n] ELSE rs[n + 1]]

IdleReq == [kind |-> "none", key |-> Empty, pc |-> "idle",
            now |-> 0, last |-> 0, m |-> EmptyMap]
NewReq(kind, key) == [IdleReq EXCEPT !.kind = kind, !.key = key]

\* out: the request that the step just taken let into its handler (resp is
\* NoResp) or finished (resp is what it wrote), with the credential it
\* carried; NoOut after every other step
NoOut == [req |-> IdleReq, cred |-> NoCredential, resp |-> NoResp]
Finish(r, resp) == [req |-> r, cred |-> NoCredential, resp |-> resp]

\* the state when main starts: flag.Parse has set filename and authToken
\* (lines 159-162), the registry is the empty map of line 25
Init ==
    /\ proc = "init"
    /\ authToken \in {Empty, Secret}
    /\ \/ filename = "" /\ disk = Absent
       \/ filename = "db" /\ disk \in InitDisks
    /\ checkins = EmptyMap
    /\ clock = StartClock
    /\ reqs = <<>>
    /\ out = NoOut
    /\ saves = <<>>
    /\ nreq = 0
    /\ written = <<>>

----------------------------------------------------------------------------
(* main (lines 154-186) *)

\* lines 164-169: without -t a random token is generated
MainToken ==
    /\ proc = "init"
    /\ IF authToken = Empty THEN authToken' \in Generated ELSE authToken' = authToken
    /\ proc' = "token"
    /\ UNCHANGED <<filename, disk, checkins, clock, reqs, out, saves, nreq, written>>

\* load going on when the file cannot be read
loadTolerant(d, m) ==
    CASE d.state = "absent" -> [m |-> m, fatal |-> FALSE]
      [] d.state = "unreadable" -> [m |-> m, fatal |-> FALSE]
      [] d.state = "present" -> [m |-> Unmarshal(d.data, m).m, fatal |-> FALSE]

\* load (lines 29-44): [m, fatal]
load(d, m) ==
    CASE d.state = "absent" -> [m |-> m, fatal |-> FALSE]
      [] d.state = "unreadable" -> [m |-> m, fatal |-> TRUE]
      [] d.state = "present" -> [m |-> Unmarshal(d.data, m).m, fatal |-> FALSE]

\* lines 171-183: load the file when one is named, then serve
MainLoad ==
    /\ proc = "token"
    /\ IF filename = ""
       THEN proc' = "serving" /\ UNCHANGED checkins
       ELSE LET l == load(disk, checkins)
            IN  IF l.fatal
                THEN proc' = "exited" /\ UNCHANGED checkins
                ELSE proc' = "serving" /\ checkins' = l.m
    /\ UNCHANGED <<authToken, filename, disk, clock, reqs, out, saves, nreq, written>>

\* time passes
Tick ==
    /\ proc = "serving"
    /\ clock < MaxClock
    /\ clock' = clock + 1
    /\ out' = NoOut
    /\ UNCHANGED <<proc, authToken, filename, disk, checkins, reqs, saves, nreq, written>>

----------------------------------------------------------------------------
(* Requests.  The steps of a handler that touch nothing shared are taken   *)
(* together with its first step that does.                                 *)

\* the server takes one more request
Free ==
    /\ proc = "serving"
    /\ nreq < MaxRequests
    /\ Len(reqs) < NumWorkers

\* authMiddleware taking the token query parameter whenever there is one
authenticateQueryFirst(cred, secret) ==
    LET header == Get(cred.Authorization)
        cut == CutPrefix(header, Bearer)
        token == IF cred.query # Empty THEN cred.query ELSE cut.rest
    IN  IF cred.query = Empty /\ header # Empty /\ ~cut.ok
        THEN Error(400, "Invalid Authorization format")
        ELSE IF ConstantTimeCompare(secret, token) # 1
        THEN Error(401, "Unauthorized")
        ELSE NoResp

\* the decision of authMiddleware (lines 71-88): the response it writes, or
\* NoResp when it calls the handler
authenticate(cred, secret) ==
    LET header == Get(cred.Authorization)
        cut == CutPrefix(header, Bearer)
        token == IF header = Empty THEN cred.query ELSE cut.rest
    IN  IF header # Empty /\ ~cut.ok
        THEN Error(400, "Invalid Authorization format")
        ELSE IF ConstantTimeCompare(secret, token) # 1
        THEN Error(401, "Unauthorized")
        ELSE NoResp

\* checkinHandler without the return of line 96
checkinParseNoReturn(key) ==
    IF parse(key).panic THEN Aborted ELSE NoResp

\* checkinHandler up to line 99, for a request that authMiddleware let
\* through: the response for a key that does not parse, else NoResp
checkinParse(key) ==
    LET p == parse(key)
    IN  IF p.panic THEN Aborted
        ELSE IF ~p.ok THEN Error(400, "Invalid key")
        ELSE NoResp

\* POST /{key}: authMiddleware (lines 69-90) and checkinHandler up to the
\* clock read of line 99. The key is read by the handler (line 93): a
\* request that authMiddleware answers finishes with its key unread.
CheckinRequest(key, cred) ==
    /\ LET r == NewReq("checkin", key)
           a == authenticate(cred, authToken)
           p == checkinParse(key)
       IN  IF a # NoResp
           THEN /\ out' = [req |-> NewReq("checkin", Empty), cred |-> cred, resp |-> a]
                /\ UNCHANGED reqs
           ELSE IF p # NoResp
           THEN out' = [req |-> r, cred |-> cred, resp |-> p] /\ UNCHANGED reqs
           ELSE /\ reqs' = Append(reqs, [r EXCEPT !.pc = "store", !.now = clock])
                /\ out' = [req |-> reqs'[Len(reqs')], cred |-> cred, resp |-> NoResp]
    /\ nreq' = nreq + 1
    /\ UNCHANGED <<proc, authToken, filename, disk, checkins, clock, saves, written>>

Checkin ==
    /\ Free
    /\ \E key \in RequestKeys, cred \in Credentials(authToken) : CheckinRequest(key, cred)

\* checkinHandler going on to line 104 without the write of line 101
CheckinStoreDeferred(i) ==
    /\ proc = "serving"
    /\ reqs[i].pc = "store"
    /\ reqs' = [reqs EXCEPT ![i].pc = "spawn"]
    /\ out' = NoOut
    /\ UNCHANGED <<proc, authToken, filename, disk, checkins, clock, saves, nreq, written>>

\* checkinHandler, lines 100-102: store the timestamp under the lock
CheckinStore(i) ==
    /\ proc = "serving"
    /\ reqs[i].pc = "store"
    /\ checkins' = Store(checkins, reqs[i].key, reqs[i].now)
    /\ reqs' = [reqs EXCEPT ![i].pc = "spawn"]
    /\ out' = NoOut
    /\ UNCHANGED <<proc, authToken, filename, disk, clock, saves, nreq, written>>

\* checkinHandler, line 104: go save()
CheckinSpawn(i) ==
    /\ proc = "serving"
    /\ reqs[i].pc = "spawn"
    /\ saves' = Append(saves, [pc |-> "start", m |-> EmptyMap,
                               by |-> [key |-> reqs[i].key, now |-> reqs[i].now]])
    /\ reqs' = [reqs EXCEPT ![i].pc = "respond"]
    /\ out' = NoOut
    /\ UNCHANGED <<proc, authToken, filename, disk, checkins, clock, nreq, written>>

\* checkinHandler, line 105: 204 No Content
CheckinRespond(i) ==
    /\ proc = "serving"
    /\ reqs[i].pc = "respond"
    /\ out' = Finish(reqs[i], NoContent)
    /\ reqs' = Return(reqs, i)
    /\ UNCHANGED <<proc, authToken, filename, disk, checkins, clock, saves, nreq, written>>

\* statusHandler with a lookup that creates the entry it does not find
StatusRequestCreating(key) ==
    /\ LET r == NewReq("status", key)
           p == parse(key)
       IN  IF p.panic THEN out' = Finish(r, Aborted) /\ UNCHANGED <<reqs, checkins>>
           ELSE IF ~p.ok
           THEN out' = Finish(r, Error(400, "Invalid key")) /\ UNCHANGED <<reqs, checkins>>
           ELSE /\ reqs' = Append(reqs, [r EXCEPT !.pc = "print",
                                                  !.last = Lookup(checkins, key)])
                /\ checkins' = IF key \in DOMAIN checkins THEN checkins
                               ELSE Store(checkins, key, 0)
                /\ out' = NoOut
    /\ nreq' = nreq + 1
    /\ UNCHANGED <<proc, authToken, filename, disk, clock, saves, written>>

\* GET /{key}: statusHandler, lines 109-118: reject a key that does not
\* parse, else read the entry under the lock
StatusRequest(key) ==
    /\ LET r == NewReq("status", key)
           p == parse(key)
       IN  IF p.panic THEN out' = Finish(r, Aborted) /\ UNCHANGED reqs
           ELSE IF ~p.ok
           THEN out' = Finish(r, Error(400, "Invalid key")) /\ UNCHANGED reqs
           ELSE /\ reqs' = Append(reqs, [r EXCEPT !.pc = "print",
                                                  !.last = Lookup(checkins, key)])
                /\ out' = NoOut
    /\ nreq' = nreq + 1
    /\ UNCHANGED <<proc, authToken, filename, disk, checkins, clock, saves, written>>

Status ==
    /\ Free
    /\ \E key \in StatusKeys : StatusRequest(key)

\* statusHandler, lines 120-122: read the clock and write the line
StatusPrint(i) ==
    /\ proc = "serving"
    /\ reqs[i].pc = "print" /\ reqs[i].kind = "status"
    /\ out' = Finish([reqs[i] EXCEPT !.now = clock],
                     Text(0, {printStatus(reqs[i].key, parse(reqs[i].key).dur,
                                          reqs[i].last, clock)}))
    /\ reqs' = Return(reqs, i)
    /\ UNCHANGED <<proc, authToken, filename, disk, checkins, clock, saves, nreq, written>>

\* GET /: listHandler, lines 126-128: copy the map under the lock
ListRequest ==
    /\ reqs' = Append(reqs, [NewReq("list", Empty) EXCEPT !.pc = "print", !.m = checkins])
    /\ out' = NoOut
    /\ nreq' = nreq + 1
    /\ UNCHANGED <<proc, authToken, filename, disk, checkins, clock, saves, written>>

List ==
    /\ Free
    /\ ListRequest

\* listHandler printing the registry itself instead of its copy
ListPrintLive(i) ==
    /\ proc = "serving"
    /\ reqs[i].pc = "print" /\ reqs[i].kind = "list"
    /\ out' = Finish([reqs[i] EXCEPT !.now = clock],
                     Text(Cardinality(DOMAIN checkins),
                          {printStatus(k, parse(k).dur, checkins[k], clock) :
                              k \in DOMAIN checkins}))
    /\ reqs' = Return(reqs, i)
    /\ UNCHANGED <<proc, authToken, filename, disk, checkins, clock, saves, nreq, written>>

\* listHandler, lines 130-136: the header line and one line per key
ListPrint(i) ==
    /\ proc = "serving"
    /\ reqs[i].pc = "print" /\ reqs[i].kind = "list"
    /\ LET m == reqs[i].m
       IN  out' = Finish([reqs[i] EXCEPT !.now = clock],
                         Text(Cardinality(DOMAIN m),
                              {printStatus(k, parse(k).dur, m[k], clock) : k \in DOMAIN m}))
    /\ reqs' = Return(reqs, i)
    /\ UNCHANGED <<proc, authToken, filename, disk, checkins, clock, saves, nreq, written>>

----------------------------------------------------------------------------
(* save (lines 46-59), run by the goroutines of line 104 *)

\* lines 47-52: return when no file is named, else copy the map under the
\* lock
SaveClone(j) ==
    /\ proc = "serving"
    /\ saves[j].pc = "start"
    /\ saves' = [saves EXCEPT ![j] =
           IF filename = "" THEN [@ EXCEPT !.pc = "done"]
           ELSE [@ EXCEPT !.pc = "open", !.m = checkins]]
    /\ out' = NoOut
    /\ UNCHANGED <<proc, authToken, filename, disk, checkins, clock, reqs, nreq, written>>

\* f.Write(data) at offset 0 of a file holding old
WriteAt0(old, data) ==
    IF Len(old) <= Len(data) THEN data
    ELSE data \o SubSeq(old, Len(data) + 1, Len(old))

\* line 55, first step of os.WriteFile: open with O_CREATE|O_TRUNC; when it
\* fails, lines 56-57 end the process
SaveOpen(j) ==
    /\ proc = "serving"
    /\ saves[j].pc = "open"
    /\ \E ok \in BOOLEAN :
          IF ok
          THEN /\ disk' = File(<<>>)
               /\ saves' = [saves EXCEPT ![j].pc = "write"]
               /\ UNCHANGED proc
          ELSE /\ proc' = "exited"
               /\ UNCHANGED <<disk, saves>>
    /\ out' = NoOut
    /\ UNCHANGED <<authToken, filename, checkins, clock, reqs, nreq, written>>

\* line 55, second step of os.WriteFile: write the document of line 54 and
\* close; when it fails, lines 56-57 end the process
SaveWrite(j) ==
    /\ proc = "serving"
    /\ saves[j].pc = "write"
    /\ \E ok \in BOOLEAN :
          IF ok
          THEN /\ disk' = File(WriteAt0(disk.data, MarshalIndent(saves[j].m)))
               /\ saves' = [saves EXCEPT ![j].pc = "done"]
               /\ written' = <<saves[j].m>>
               /\ UNCHANGED proc
          ELSE /\ proc' = "exited"
               /\ UNCHANGED <<disk, saves, written>>
    /\ out' = NoOut
    /\ UNCHANGED <<authToken, filename, checkins, clock, reqs, nreq>>

----------------------------------------------------------------------------
(* The server *)

Next ==
    \/ MainToken
    \/ MainLoad
    \/ Tick
    \/ Checkin
    \/ Status
    \/ List
    \/ \E i \in Workers : CheckinStore(i)
    \/ \E i \in Workers : CheckinSpawn(i)
    \/ \E i \in Workers : CheckinRespond(i)
    \/ \E i \in Workers : StatusPrint(i)
    \/ \E i \in Workers : ListPrint(i)
    \/ \E j \in 1..Len(saves) : SaveClone(j)
    \/ \E j \in 1..Len(saves) : SaveOpen(j)
    \/ \E j \in 1..Len(saves) : SaveWrite(j)

Spec == Init /\ [][Next]_vars

----------------------------------------------------------------------------
(* Status queries on a registry that check-ins have filled: the server is  *)
(* serving, the registry holds the timestamps of earlier check-ins (none   *)
(* at all, or one at EvalT0 or just after it), and the clock stands at one *)
(* of the query times.                                                     *)

EvalT0 == 1000
EvalClocks ==
    {EvalT0 + d : d \in {0, 1, 2, 3, 23 * UnitSeconds("h"), 24 * UnitSeconds("h"),
                         24 * UnitSeconds("h") + 1, 25 * UnitSeconds("h")}}
EvalRegistries ==
    {EmptyMap} \cup {Map1(k, t) : k \in {KeyA, KeyB, KeyBackup}, t \in {EvalT0, EvalT0 + 1}}

InitEval ==
    /\ proc = "serving"
    /\ authToken = Secret
    /\ filename = "" /\ disk = Absent
    /\ checkins \in EvalRegistries
    /\ clock \in EvalClocks
    /\ reqs = <<>>
    /\ out = NoOut
    /\ saves = <<>>
    /\ nreq = 0
    /\ written = <<>>

NextEval ==
    \/ Status
    \/ \E i \in Workers : StatusPrint(i)

SpecEval == InitEval /\ [][NextEval]_vars

----------------------------------------------------------------------------
(* parse on every short key: the first status query of a run, for every    *)
(* string of at most MaxKeyLen characters of ParseAlphabet and for the     *)
(* keys named above.  GET /{key} is routed to statusHandler for every      *)
(* non-empty key (line 179).                                               *)

MaxKeyLen == 5
ParseAlphabet == {"a", "-", "0", "1", "s", "!"}
KeyMinutes == <<"a", "-", "2", "m">>
ParseKeys ==
    UNION {[1..n -> ParseAlphabet] : n \in 1..MaxKeyLen} \cup StatusKeys \cup {KeyMinutes}

InitParse ==
    /\ proc = "serving"
    /\ authToken = Secret
    /\ filename = "" /\ disk = Absent
    /\ checkins = EmptyMap
    /\ clock = StartClock
    /\ reqs = <<>>
    /\ out = NoOut
    /\ saves = <<>>
    /\ nreq = 0
    /\ written = <<>>

StatusOfAnyKey ==
    /\ Free
    /\ nreq = 0
    /\ \E key \in ParseKeys : StatusRequest(key)

NextParse ==
    \/ StatusOfAnyKey
    \/ \E i \in Workers : StatusPrint(i)

SpecParse == InitParse /\ [][NextParse]_vars

----------------------------------------------------------------------------
(* The registry under load: an in-memory server (no -f flag) that takes up *)
(* to MaxRecords requests: check-ins of two keys by a client that presents *)
(* the token, status queries for these keys and listings.  Without a file  *)
(* save returns at line 48.                                                *)

MaxRecords == 3
ServeKeys == {KeyA, KeyB}
TokenHeader == [NoCredential EXCEPT !.Authorization = <<Bearer \o authToken>>]

InitServe ==
    /\ proc = "serving"
    /\ authToken = Secret
    /\ filename = "" /\ disk = Absent
    /\ checkins = EmptyMap
    /\ clock = StartClock
    /\ reqs = <<>>
    /\ out = NoOut
    /\ saves = <<>>
    /\ nreq = 0
    /\ written = <<>>

FreeServe ==
    /\ proc = "serving"
    /\ nreq < MaxRecords
    /\ Len(reqs) < NumWorkers

ServeCheckin == FreeServe /\ \E key \in ServeKeys : CheckinRequest(key, TokenHeader)
ServeStatus == FreeServe /\ \E key \in ServeKeys : StatusRequest(key)
ServeList == FreeServe /\ ListRequest

NextServe ==
    \/ Tick
    \/ ServeCheckin
    \/ ServeStatus
    \/ ServeList
    \/ \E i \in Workers : CheckinStore(i)
    \/ \E i \in Workers : CheckinSpawn(i)
    \/ \E i \in Workers : CheckinRespond(i)
    \/ \E i \in Workers : StatusPrint(i)
    \/ \E i \in Workers : ListPrint(i)
    \/ \E j \in 1..Len(saves) : SaveClone(j)

SpecServe == InitServe /\ [][NextServe]_vars

----------------------------------------------------------------------------
(* Saving: a serving process with a persistence file that had no file to   *)
(* load, taking check-ins of two keys by a client that presents the token  *)
(* and listings.                                                           *)

InitSave ==
    /\ proc = "serving"
    /\ authToken = Secret
    /\ filename = "db" /\ disk = Absent
    /\ checkins = EmptyMap
    /\ clock = StartClock
    /\ reqs = <<>>
    /\ out = NoOut
    /\ saves = <<>>
    /\ nreq = 0
    /\ written = <<>>

SaveCheckin == Free /\ \E key \in ServeKeys : CheckinRequest(key, TokenHeader)

NextSave ==
    \/ Tick
    \/ SaveCheckin
    \/ List
    \/ \E i \in Workers : CheckinStore(i)
    \/ \E i \in Workers : CheckinSpawn(i)
    \/ \E i \in Workers : CheckinRespond(i)
    \/ \E i \in Workers : ListPrint(i)
    \/ \E j \in 1..Len(saves) : SaveClone(j)
    \/ \E j \in 1..Len(saves) : SaveOpen(j)
    \/ \E j \in 1..Len(saves) : SaveWrite(j)

SpecSave == InitSave /\ [][NextSave]_vars

----------------------------------------------------------------------------
(* Startup: main from its first line on, followed by the status queries    *)
(* and listings of a monitoring system.                                    *)

NextStartup ==
    \/ MainToken
    \/ MainLoad
    \/ Status
    \/ List
    \/ \E i \in Workers : StatusPrint(i)
    \/ \E i \in Workers : ListPrint(i)

SpecStartup == Init /\ [][NextStartup]_vars

----------------------------------------------------------------------------
(* Checked properties *)

Serving == proc = "serving"
Persisting == Serving /\ filename # ""
AllSavesDone == \A j \in 1..Len(saves) : saves[j].pc = "done"
NoCheckinInProgress == \A i \in Workers : reqs[i].kind # "checkin"

\* C1: the timestamp stored for a key never decreases, whatever the
\* interleaving of the check-ins to it: no step of the serving process
\* replaces a key's timestamp by an earlier one (or removes the key).
C1_TimestampNeverDecreases ==
    [][Serving =>
         \A k \in DOMAIN checkins :
            k \in DOMAIN checkins' /\ checkins'[k] >= checkins[k]]_vars

\* C2: with a persistence file and no write failure, once no check-in is in
\* progress and every spawned save has finished, the file holds exactly the
\* registry mapping.
C2_FileEqualsRegistryWhenQuiet ==
    (Persisting /\ saves # <<>> /\ AllSavesDone /\ NoCheckinInProgress)
        => /\ disk.state = "present"
           /\ Unmarshal(disk.data, EmptyMap) = [m |-> checkins, err |-> FALSE]

\* C3: after two or more saves have finished, the file is the complete
\* document of the snapshot one of them took.
C3_FileIsOneSnapshot ==
    (Persisting /\ Len(saves) >= 2 /\ AllSavesDone)
        => \E j \in 1..Len(saves) : disk.data = MarshalIndent(saves[j].m)

\* C4: when the content written by one completed save is replaced by the
\* content of the next completed save, every key of the old content is in
\* the new content with a timestamp that is not earlier.
C4_NoInformationLost ==
    [][(written # <<>> /\ written' # written) =>
         \A k \in DOMAIN written[1] :
            k \in DOMAIN written'[1] /\ written'[1][k] >= written[1][k]]_vars

\* the credential a check-in request presents: the Authorization value
\* after "Bearer ", the token query parameter when there is no
\* Authorization header (a header line with an empty value counts as none);
\* Malformed for a header without the prefix
Malformed == <<"malformed">>
HasBearer(h) == Len(h) >= 7 /\ \A n \in 1..7 : h[n] = Bearer[n]
NoAuthorization(cred) == cred.Authorization \in {<<>>, <<Empty>>}
Presented(cred) ==
    IF NoAuthorization(cred) THEN cred.query
    ELSE LET h == cred.Authorization[1]
         IN  IF HasBearer(h) THEN [n \in 1..(Len(h) - 7) |-> h[n + 7]]
             ELSE Malformed

Unauthorized == Error(401, "Unauthorized")
BadlyFormed == Error(400, "Invalid Authorization format")
InvalidKey == Error(400, "Invalid key")

\* the step just taken handled a check-in request's arrival
CheckinArrived == out'.req.kind = "checkin" /\ out'.req.pc # "respond"

\* C5: a check-in request is let through iff the credential it presents
\* equals the configured secret, which is never empty; a header without the
\* prefix gets the 'badly formed' response, every other mismatch gets
\* Unauthorized; a rejected request changes neither the registry nor the
\* saves, and only requests that were let through are ever in the handler
\* that writes the registry.
C5_AuthGuardsCheckin ==
    [][/\ Serving => authToken # Empty
       /\ CheckinArrived =>
             LET c == Presented(out'.cred)
             IN  /\ c = Malformed <=> out'.resp = BadlyFormed
                 /\ (c # Malformed /\ c # authToken) <=> out'.resp = Unauthorized
                 /\ out'.resp \in {BadlyFormed, Unauthorized}
                       => UNCHANGED <<checkins, saves, reqs>>
       /\ (Len(reqs') > Len(reqs) /\ reqs'[Len(reqs')].kind = "checkin")
             => /\ out'.req = reqs'[Len(reqs')]
                /\ Presented(out'.cred) = authToken
       /\ (Serving /\ checkins' # checkins)
             => \E i \in Workers :
                   /\ reqs[i].kind = "checkin"
                   /\ checkins' = Store(checkins, reqs[i].key, reqs[i].now)
       /\ (Serving /\ saves' # saves /\ Len(saves') > Len(saves))
             => \E i \in Workers : reqs[i].kind = "checkin"]_vars

\* a request without any credential was answered Unauthorized while a
\* request that was let through is about to store its timestamp
C5_Witness ==
    /\ out.req.kind = "checkin"
    /\ out.cred = NoCredential
    /\ out.resp = Unauthorized
    /\ \E i \in Workers : reqs[i].pc = "store"

\* C6: a check-in sent as the README sends it (the secret in a header
\* 'Authentication: Bearer SECRET', nothing else) is let through by
\* authMiddleware, and goes on to record the check-in when its key is valid.
C6_ReadmeCheckinAccepted ==
    (/\ out.req.kind = "checkin"
     /\ out.cred = [NoCredential EXCEPT !.Authentication = <<Bearer \o authToken>>])
        => /\ out.resp \notin {Unauthorized, BadlyFormed}
           /\ out.req.key \in {KeyA, KeyB} => out.resp = NoResp /\ out.req.pc = "store"

\* C7: an authenticated check-in whose key does not match the key pattern
\* is answered 'Invalid key' and changes nothing: the registry, the saves
\* and the requests in progress are as before, and no check-in with such a
\* key is ever in the handler past the check.
C7_InvalidKeyNoChange ==
    [][/\ (/\ CheckinArrived
           /\ Presented(out'.cred) = authToken
           /\ out'.req.key \in {KeyX, KeyTrail})
             => /\ out'.resp = InvalidKey
                /\ UNCHANGED <<checkins, saves, reqs>>
       /\ \A i \in 1..Len(reqs') :
             reqs'[i].kind = "checkin" => reqs'[i].key \notin {KeyX, KeyTrail}]_vars

\* an authenticated check-in of the key 'x' was answered 'Invalid key'
C7_Witness ==
    /\ out.req.kind = "checkin"
    /\ out.req.key = KeyX
    /\ Presented(out.cred) = authToken
    /\ out.resp = InvalidKey

\* the window each key encodes
WindowOf(key) ==
    CASE key = KeyA -> 1
      [] key = KeyB -> 2
      [] key = KeyBackup -> 24 * 60 * 60

\* the step just taken answered a status query with a line
StatusAnswered == out.req.kind = "status" /\ out.resp.code = 200

\* C8: the verdict of a status query for a key with window W, last check-in
\* L and query time now is NEVER iff the key never checked in, OKAY iff
\* now - L <= W, ALARM iff now - L > W, one of the three always; after a
\* check-in of 'backup-24h' at T0 the query at T0+23h says OKAY and the one
\* at T0+25h says ALARM.
C8_Verdict ==
    StatusAnswered =>
        \A line \in out.resp.lines :
            LET k == out.req.key
                seen == k \in DOMAIN checkins
                v == line.verdict
            IN  /\ out.resp.lines = {line}
                /\ line.key = k
                /\ v \in {"NEVER", "OKAY", "ALARM"}
                /\ v = "NEVER" <=> ~seen
                /\ v = "OKAY" <=> (seen /\ clock - checkins[k] <= WindowOf(k))
                /\ v = "ALARM" <=> (seen /\ clock - checkins[k] > WindowOf(k))
                /\ (k = KeyBackup /\ seen /\ clock = checkins[k] + 23 * 3600)
                      => v = "OKAY"
                /\ (k = KeyBackup /\ seen /\ clock = checkins[k] + 25 * 3600)
                      => v = "ALARM"

\* 'backup-24h' was queried exactly 24 hours after its check-in: OKAY
C8_Witness ==
    /\ StatusAnswered
    /\ out.req.key = KeyBackup
    /\ KeyBackup \in DOMAIN checkins
    /\ clock - checkins[KeyBackup] = WindowOf(KeyBackup)
    /\ \E line \in out.resp.lines : line.verdict = "OKAY"

\* C9: a line of a listing, which is written for a key that has an entry,
\* never says NEVER, and a status line that does not say NEVER is for a key
\* that has an entry.
C9_NeverIffNoEntry ==
    /\ (out.req.kind = "list" /\ out.resp.code = 200)
          => \A line \in out.resp.lines :
                line.key \in DOMAIN out.req.m => line.verdict # "NEVER"
    /\ StatusAnswered
          => \A line \in out.resp.lines :
                line.verdict # "NEVER" => line.key \in DOMAIN checkins

\* C10: every key the registry of the serving process holds matches the key
\* pattern.
C10_RegistryKeysValid ==
    Serving => \A k \in DOMAIN checkins : keyRe(k) # 0

\* the file content is no well-formed document of the registry: the braces
\* or an entry are missing or broken, or some entry's value is no timestamp
Corrupt(data) ==
    \/ Len(data) < 2
    \/ data[1] # Open
    \/ data[Len(data)] # Close
    \/ \E n \in 2..(Len(data) - 1) :
          data[n].t # "entry" \/ data[n].val \notin {FormatTime(t) : t \in 0..MaxClock}

\* C11: when the persistence file exists at startup with corrupt content,
\* also when only some entry of it is malformed, startup does not fail and
\* the registry is empty when the server begins serving (no request has
\* arrived yet, so the file is still the one found at startup).
C11_CorruptFileEmptyRegistry ==
    (filename # "" /\ nreq = 0 /\ disk.state = "present" /\ Corrupt(disk.data))
        => /\ proc # "exited"
           /\ Serving => checkins = EmptyMap

\* the decimal value of a digit string, from its first digit on
RECURSIVE Decimal(_, _)
Decimal(ds, acc) ==
    IF ds = <<>> THEN acc ELSE Decimal(Tail(ds), 10 * acc + DigitValue(ds[1]))

\* key is label '-' digits unit, with the digits from position p + 1 on
SplitsAt(key, p) ==
    /\ p >= 2 /\ p + 2 <= Len(key)
    /\ key[p] = "-"
    /\ \A n \in 1..(p - 1) : key[n] \in Letters \cup Digits \cup {".", "_", "-"}
    /\ \A n \in (p + 1)..(Len(key) - 1) : key[n] \in Digits
    /\ key[Len(key)] \in {"h", "m", "s"}
HasKeyForm(key) == \E p \in 1..Len(key) : SplitsAt(key, p)
Magnitude(key) ==
    LET p == CHOOSE q \in 1..Len(key) : SplitsAt(key, q)
    IN  Decimal(SubSeq(key, p + 1, Len(key) - 1), 0)

\* the specified key set: the form above with a positive number
Specified(key) == HasKeyForm(key) /\ Magnitude(key) > 0

\* the step just taken answered a status query
StatusJustAnswered == out.req.kind = "status" /\ out.resp # NoResp

\* C12: a status query gets past parse iff its key is in the specified key
\* set (non-empty label, '-', positive integer, unit h, m or s at the very
\* end); every other key is answered 'Invalid key'.
C12_ParseAcceptsSpecifiedKeys ==
    /\ \A i \in Workers : reqs[i].kind = "status" => Specified(reqs[i].key)
    /\ StatusJustAnswered =>
          /\ out.resp.code = 200 => Specified(out.req.key)
          /\ ~Specified(out.req.key) => out.resp = InvalidKey
          /\ Specified(out.req.key) => out.resp # InvalidKey

\* C13: parse has exactly two outcomes: a key of the form label-<n><unit>,
\* whatever the magnitude n, gets the duration n scaled by the unit and the
\* request is never aborted; any other key is answered 'Invalid key'.
C13_ParseTotal ==
    /\ \A i \in Workers :
          reqs[i].kind = "status" =>
             /\ HasKeyForm(reqs[i].key)
             /\ parse(reqs[i].key).dur
                   = Magnitude(reqs[i].key) * UnitSeconds(reqs[i].key[Len(reqs[i].key)])
    /\ StatusJustAnswered =>
          /\ out.resp # Aborted
          /\ out.resp = InvalidKey <=> ~HasKeyForm(out.req.key)

\* the step from the unprimed to the primed state is the locked write
\* (lines 100-102) of the check-in request i
LockedWrite(i) ==
    /\ reqs[i].pc = "store"
    /\ Len(reqs') = Len(reqs)
    /\ reqs'[i].pc = "spawn"

\* the request that the step let into its handler, when there is one
Entered == Len(reqs') > Len(reqs)
Newcomer == reqs'[Len(reqs')]

\* C14: the registry entry of a key is changed only by the locked write of
\* a record for that key, which sets it to the record's timestamp; a
\* lookup's locked read takes the entry as it is then, i.e. the timestamp of
\* the most recent record that completed its locked write before it (the
\* zero time when there is none), and the answer reports exactly that.
C14_LookupReturnsLatestRecord ==
    [][/\ \A i \in Workers :
             LockedWrite(i) =>
                /\ reqs[i].key \in DOMAIN checkins'
                /\ checkins'[reqs[i].key] = reqs[i].now
       /\ \A k \in DOMAIN checkins \cup DOMAIN checkins' :
             (k \notin DOMAIN checkins \/ k \notin DOMAIN checkins'
                 \/ checkins'[k] # checkins[k])
                => \E i \in Workers : LockedWrite(i) /\ reqs[i].key = k
       /\ (Entered /\ Newcomer.kind = "status") =>
             Newcomer.last = IF Newcomer.key \in DOMAIN checkins
                             THEN checkins[Newcomer.key] ELSE 0
       /\ (out'.req.kind = "status" /\ out'.resp.code = 200) =>
             \E i \in Workers :
                /\ out'.req = [reqs[i] EXCEPT !.now = clock]
                /\ \A line \in out'.resp.lines :
                      line.last = IF reqs[i].last = 0 THEN Empty
                                  ELSE FormatTime(reqs[i].last)]_vars

\* two records of 'a-1s' with different timestamps have completed and a
\* lookup of the key holds the timestamp that is in the registry
C14_Witness ==
    /\ \E j1, j2 \in 1..Len(saves) :
          /\ saves[j1].by = [key |-> KeyA, now |-> StartClock]
          /\ saves[j2].by = [key |-> KeyA, now |-> StartClock + 1]
    /\ \E i \in Workers :
          /\ reqs[i].kind = "status" /\ reqs[i].key = KeyA
          /\ reqs[i].last = checkins[KeyA]
          /\ reqs[i].last = StartClock

\* the keys and timestamps a listing shows
Shown(lines) == {<<line.key, line.last>> : line \in lines}
TextOf(m) == {<<k, IF m[k] = 0 THEN Empty ELSE FormatTime(m[k])>> : k \in DOMAIN m}

\* C15: the copy a save or a listing takes is the registry of that instant
\* and no later step changes it: a save writes the document of its copy and
\* a listing shows the keys and timestamps of its copy, whatever records
\* took the lock in between.
C15_SnapshotIndependent ==
    [][/\ \A j \in 1..Len(saves) :
             /\ (saves[j].pc = "start" /\ saves'[j].pc = "open")
                   => saves'[j].m = checkins
             /\ saves[j].pc \in {"open", "write", "done"}
                   => saves'[j].m = saves[j].m
             /\ (saves[j].pc = "write" /\ saves'[j].pc = "done")
                   => LET doc == MarshalIndent(saves[j].m)
                      IN  /\ disk'.state = "present"
                          /\ Len(disk'.data) >= Len(doc)
                          /\ SubSeq(disk'.data, 1, Len(doc)) = doc
       /\ (Entered /\ Newcomer.kind = "list") => Newcomer.m = checkins
       /\ \A i \in 1..Len(reqs') :
             (reqs'[i].kind = "list" /\ ~(Entered /\ i = Len(reqs')))
                => \E n \in Workers : reqs[n] = reqs'[i]
       /\ (out'.req.kind = "list" /\ out'.resp # NoResp) =>
             \E i \in Workers :
                /\ out'.req = [reqs[i] EXCEPT !.now = clock]
                /\ out'.resp.code = 200
                /\ out'.resp.n = Cardinality(DOMAIN reqs[i].m)
                /\ Shown(out'.resp.lines) = TextOf(reqs[i].m)]_vars

\* a listing was answered from its copy after a record had added a key to
\* the registry
C15_Witness ==
    /\ out.req.kind = "list" /\ out.resp.code = 200
    /\ Shown(out.resp.lines) = TextOf(out.req.m)
    /\ DOMAIN out.req.m # DOMAIN checkins

\* the step lets a status query or a listing into its handler, or answers one
ReadStep ==
    \/ Entered /\ Newcomer.kind \in {"status", "list"}
    \/ out'.req.kind \in {"status", "list"}

\* C16: status queries and listings carry no credential and are answered
\* all the same (never Unauthorized); their steps leave the registry, the
\* saves and the file as they are, so a status query for a valid key that
\* never checked in creates no entry and the key count of the registry, which
\* a later listing reports, is unchanged.
C16_ReadsAreReadOnly ==
    [][ReadStep =>
          /\ UNCHANGED <<checkins, saves, disk, written>>
          /\ Cardinality(DOMAIN checkins') = Cardinality(DOMAIN checkins)
          /\ out'.req.kind \in {"status", "list"} =>
                /\ out'.cred = NoCredential
                /\ out'.resp.code = 200
          /\ (Entered /\ Newcomer.kind = "list") =>
                Cardinality(DOMAIN Newcomer.m) = Cardinality(DOMAIN checkins)]_vars

\* a status query for 'a-1s', which never checked in, was answered NEVER
\* and the registry still holds only 'b-2s'
C16_Witness ==
    /\ out.req.kind = "status" /\ out.req.key = KeyA
    /\ \E line \in out.resp.lines : line.verdict = "NEVER"
    /\ DOMAIN checkins = {KeyB}

\* main is about to load the file named by -f
AboutToLoad == proc = "token" /\ filename # ""

\* C17: with a persistence file configured, when the file does not exist
\* main goes on to serve with an empty registry; when the file is there but
\* cannot be read, startup ends the process and no request is ever served.
C17_StartupAbsentOrUnreadable ==
    [][/\ (AboutToLoad /\ disk.state = "absent")
             => proc' = "serving" /\ checkins' = EmptyMap
       /\ (AboutToLoad /\ disk.state = "unreadable") => proc' = "exited"
       /\ (filename # "" /\ disk.state = "unreadable")
             => /\ proc' # "serving"
                /\ nreq' = 0 /\ reqs' = <<>> /\ out' = NoOut
                /\ disk' = disk]_vars

\* the file could not be read and the process has ended without taking a
\* request
C17_Witness ==
    /\ proc = "exited"
    /\ filename # "" /\ disk.state = "unreadable"
    /\ nreq = 0

\* the timestamps that records whose locked write is done have stored for
\* key: those of the check-ins between their write and their response, and
\* those of the check-ins that spawned a save
RecordedFor(key) ==
    {reqs[i].now : i \in {n \in Workers : /\ reqs[n].kind = "checkin"
                                          /\ reqs[n].key = key
                                          /\ reqs[n].pc \in {"spawn", "respond"}}}
      \cup {saves[j].by.now : j \in {n \in 1..Len(saves) : saves[n].by.key = key}}

\* save j holds the copy of line 51
HasSnapshot(j) == saves[j].pc \in {"open", "write", "done"}

\* C18: a check-in comes to `go save()` only after its locked write, which
\* set its key's entry to its timestamp; from then on the entry is changed
\* only by the locked write of a later record for the key; the save copies
\* the registry in one step after that.  So the snapshot of a save holds the
\* key of the check-in that spawned it, with that check-in's timestamp or
\* one a later record stored, and equals the registry of a single instant.
C18_SnapshotNotBeforeCheckin ==
    [][/\ \A i \in Workers :
             LockedWrite(i) =>
                /\ reqs[i].key \in DOMAIN checkins'
                /\ checkins'[reqs[i].key] = reqs[i].now
       /\ \A i \in 1..Len(reqs') :
             reqs'[i].pc = "spawn" =>
                \/ LockedWrite(i)
                \/ \E n \in Workers : reqs[n] = reqs'[i]
       /\ \A k \in DOMAIN checkins :
             /\ k \in DOMAIN checkins'
             /\ checkins'[k] # checkins[k]
                   => \E i \in Workers : LockedWrite(i) /\ reqs[i].key = k
       /\ Len(saves') > Len(saves) =>
             \E i \in Workers :
                /\ reqs[i].pc = "spawn"
                /\ saves'[Len(saves')].by = [key |-> reqs[i].key, now |-> reqs[i].now]
                /\ saves'[Len(saves')].pc = "start"
       /\ \A j \in 1..Len(saves) :
             /\ saves'[j].by = saves[j].by
             /\ saves[j].by.key \in DOMAIN checkins
             /\ checkins[saves[j].by.key] \in RecordedFor(saves[j].by.key)
             /\ (saves[j].pc = "start" /\ HasSnapshot(j)')
                   => saves'[j].m = checkins
             /\ HasSnapshot(j) =>
                   /\ saves'[j].m = saves[j].m
                   /\ saves[j].by.key \in DOMAIN saves[j].m
                   /\ saves[j].m[saves[j].by.key] \in RecordedFor(saves[j].by.key)]_vars

\* a save has written a snapshot that holds the key of its check-in with
\* the timestamp of another record, stored after that check-in's write
C18_Witness ==
    \E j \in 1..Len(saves) :
        /\ saves[j].pc = "done"
        /\ disk.data = MarshalIndent(saves[j].m)
        /\ saves[j].by.key \in DOMAIN saves[j].m
        /\ saves[j].m[saves[j].by.key] # saves[j].by.now

\* the saves spawned for check-ins of key at time now, and the check-ins of
\* key at time now that have spawned their save and not yet responded
SavesBy(b) == {j \in 1..Len(saves) : saves[j].by = b}
Unanswered(b) ==
    {i \in Workers : /\ reqs[i].kind = "checkin" /\ reqs[i].pc = "respond"
                     /\ reqs[i].key = b.key /\ reqs[i].now = b.now}

\* C19: when a save has failed to write and ended the process, the check-in
\* that spawned it has had its response: among the saves that were opening
\* or writing the file there is one whose check-in is no longer in its
\* handler (more saves were spawned for its key and timestamp than there
\* are check-ins of that key and timestamp still to respond).
C19_CrashAfterResponse ==
    (proc = "exited" /\ saves # <<>>)
        => \E j \in 1..Len(saves) :
              /\ saves[j].pc \in {"open", "write"}
              /\ Cardinality(SavesBy(saves[j].by)) > Cardinality(Unanswered(saves[j].by))

\* C20: no step of the serving process removes a key from the registry, so
\* its key count never decreases; a listing reports the key count of the
\* copy it took, which is at least the count any listing that copied before
\* it holds.
C20_KeysNeverDeleted ==
    [][Serving =>
          /\ DOMAIN checkins \subseteq DOMAIN checkins'
          /\ Cardinality(DOMAIN checkins') >= Cardinality(DOMAIN checkins)
          /\ (Entered /\ Newcomer.kind = "list") =>
                /\ DOMAIN Newcomer.m = DOMAIN checkins
                /\ \A i \in Workers :
                      reqs[i].kind = "list" =>
                         DOMAIN reqs[i].m \subseteq DOMAIN Newcomer.m
          /\ (out'.req.kind = "list" /\ out'.resp # NoResp) =>
                /\ out'.resp.n = Cardinality(DOMAIN out'.req.m)
                /\ {line.key : line \in out'.resp.lines} = DOMAIN out'.req.m
                /\ DOMAIN out'.req.m \subseteq DOMAIN checkins']_vars

\* after check-ins of two keys a listing reports two keys
C20_Witness ==
    /\ out.req.kind = "list"
    /\ out.resp.n = 2
    /\ DOMAIN checkins = {KeyA, KeyB}
    /\ nreq = MaxRecords

====
